---- MODULE Spec2Model ----
(***************************************************************************)
(* Model of src/lib.rs: the immutable, reference counted cons list         *)
(* `List<A>` (an `Rc<BaseList<A>>`), its constructors, accessors,          *)
(* iterator, conversions and trait implementations.                        *)
(*                                                                         *)
(* The heap holds the `RcBox<BaseList<A>>` allocations: every node has a   *)
(* variant (Cons or Nil), the fields of the variant and the strong         *)
(* reference count of its Rc.  A `List<A>` value is the address of the     *)
(* node its `rc` field points to.  The caller's variables are the slots.   *)
(***************************************************************************)
EXTENDS Integers, Sequences, FiniteSets, TLC

\* ---------------------------------------------------------------- bounds
MaxNodes == 3       \* allocations that can be live at once (Spec)
NumSlots == 2       \* caller variables of type List<A> (Spec)
MaxIterNodes == 4   \* allocations that can be live at once (SpecIter)
NumIterSlots == 3   \* caller variables of type List<A> (SpecIter)
MaxBuildNodes == 6  \* allocations that can be live at once (SpecBuild)
NumBuildSlots == 3  \* caller variables of type List<A> (SpecBuild)
MaxVal == 2         \* element values are 1..MaxVal (the type parameter A)
MaxLen == 2         \* longest input sequence handed to from_iter

Values == 1..MaxVal

VARIABLES
    heap,    \* address -> RcBox<BaseList<A>> (or a free cell)
    slots,   \* caller variable -> address of the node its List points to, 0 = unbound
    it,      \* the caller's Iter<'a, A>: the borrowed slot and the list it stands at
    ret      \* the call that has just returned, with its arguments and result

vars == <<heap, slots, it, ret>>

\* the caller's variables
Slots == DOMAIN slots

\* ------------------------------------------------------------ data model
FreeNode == [kind |-> "Free", head |-> 0, tail |-> 0, rc |-> 0]

\* enum BaseList<A> { Cons(A, List<A>), Nil } inside a fresh Rc (strong = 1)
NilNode == [kind |-> "Nil", head |-> 0, tail |-> 0, rc |-> 1]

ConsNode(h, t) == [kind |-> "Cons", head |-> h, tail |-> t, rc |-> 1]

\* Option<T>
None == <<>>

Some(x) == <<x>>

\* outcome of a call that may panic
Panic == [panicked |-> TRUE, val |-> <<>>]

Ok(x) == [panicked |-> FALSE, val |-> <<x>>]

\* std::cmp::Ordering
Less == -1

Equal == 0

Greater == 1

\* the allocator: Rc::new takes a cell that is not in use
FreeCells(h) == {n \in DOMAIN h : h[n].kind = "Free"}

FreshNode(h) == CHOOSE n \in FreeCells(h) : \A m \in FreeCells(h) : n <= m

\* --------------------------------------------------- constructors, clone
\* pub fn nil<A>() -> List<A>
nil(h) ==
    LET n == FreshNode(h)
    IN  [heap |-> [h EXCEPT ![n] = NilNode], list |-> n]

\* pub fn cons<A>(head: A, tail: List<A>) -> List<A>; the tail handle is moved in
cons(h, x, t) ==
    LET n == FreshNode(h)
    IN  [heap |-> [h EXCEPT ![n] = ConsNode(x, t)], list |-> n]

\* impl Clone for List<A>: Rc::clone
clone(h, l) == [heap |-> [h EXCEPT ![l].rc = @ + 1], list |-> l]

\* a drop that frees the node at count zero but forgets the tail handle it owns
dropNoCascade(h, l) ==
    IF h[l].rc > 1
    THEN [h EXCEPT ![l].rc = @ - 1]
    ELSE [h EXCEPT ![l] = FreeNode]

\* dropping a List<A>: Rc::drop decrements the strong count and, at zero,
\* drops the BaseList (so the tail handle of a Cons) and frees the cell
RECURSIVE drop(_, _)
drop(h, l) ==
    IF h[l].rc > 1
    THEN [h EXCEPT ![l].rc = @ - 1]
    ELSE LET node == h[l]
             h1   == [h EXCEPT ![l] = FreeNode]
         IN  IF node.kind = "Cons" THEN drop(h1, node.tail) ELSE h1

\* -------------------------------------------------------------- accessors
\* head() that answers an empty list with a default element instead of panicking
headDefault(h, l) == IF h[l].kind = "Cons" THEN Ok(h[l].head) ELSE Ok(0)

\* pub fn head(&self) -> &A
head(h, l) == IF h[l].kind = "Cons" THEN Ok(h[l].head) ELSE Panic

\* tail() that moves the tail handle out of the node and leaves the node empty
tailTake(h, l) ==
    IF h[l].kind = "Cons"
    THEN [panicked |-> FALSE,
          heap |-> [h EXCEPT ![l] = [kind |-> "Nil", head |-> 0, tail |-> 0, rc |-> h[l].rc]],
          list |-> h[l].tail]
    ELSE [panicked |-> TRUE, heap |-> h, list |-> 0]

\* tail() that hands out a clone of the list itself instead of its tail handle
tailSelf(h, l) ==
    IF h[l].kind = "Cons"
    THEN [panicked |-> FALSE, heap |-> clone(h, l).heap, list |-> l]
    ELSE [panicked |-> TRUE, heap |-> h, list |-> 0]

\* pub fn tail(&self) -> List<A>: a clone of the tail handle, or a panic
tail(h, l) ==
    IF h[l].kind = "Cons"
    THEN [panicked |-> FALSE, heap |-> clone(h, h[l].tail).heap, list |-> h[l].tail]
    ELSE [panicked |-> TRUE, heap |-> h, list |-> 0]

\* pub fn head_opt(&self) -> Option<&A>
head_opt(h, l) == IF h[l].kind = "Cons" THEN Some(h[l].head) ELSE None

\* pub fn tail_opt(&self) -> Option<List<A>>
tail_opt(h, l) ==
    IF h[l].kind = "Cons"
    THEN [opt |-> Some(h[l].tail), heap |-> clone(h, h[l].tail).heap]
    ELSE [opt |-> None, heap |-> h]

\* pub fn is_empty(&self) -> bool
is_empty(h, l) == h[l].kind # "Cons"

\* -------------------------------------------------------------- iteration
\* pub fn iter(&self) -> Iter<A>: Iter { list: self }
iter(l) == l

\* Iterator::next for Iter: the item and the list the iterator stands at afterwards
next(h, l) ==
    IF h[l].kind = "Cons"
    THEN [item |-> Some(h[l].head), list |-> h[l].tail]
    ELSE [item |-> None, list |-> l]

\* Iterator::count over iter(): pub fn len(&self) -> usize
RECURSIVE count(_, _)
count(h, i) ==
    LET r == next(h, i)
    IN  IF r.item = None THEN 0 ELSE 1 + count(h, r.list)

len(h, l) == count(h, iter(l))

\* the items an Iter yields until it returns None, in the order it yields them
RECURSIVE collect(_, _)
collect(h, i) ==
    LET r == next(h, i)
    IN  IF r.item = None THEN <<>> ELSE <<r.item[1]>> \o collect(h, r.list)

\* ------------------------------------------------------ rev, conversions
\* the loop of rev: while let Cons(ref h, ref t) = *rest.rc
RECURSIVE revLoop(_, _, _)
revLoop(h, list, rest) ==
    IF h[rest].kind = "Cons"
    THEN LET c == cons(h, h[rest].head, list)
         IN  revLoop(c.heap, c.list, h[rest].tail)
    ELSE [heap |-> h, list |-> list]

\* rev() that keeps the order: it conses the head onto the copy of the tail
RECURSIVE revSameOrder(_, _)
revSameOrder(h, l) ==
    IF h[l].kind = "Cons"
    THEN LET r == revSameOrder(h, h[l].tail)
         IN  cons(r.heap, h[l].head, r.list)
    ELSE nil(h)

\* the Nil node a list ends in
RECURSIVE terminator(_, _)
terminator(h, l) == IF h[l].kind = "Cons" THEN terminator(h, h[l].tail) ELSE l

\* rev() that starts from a clone of the list's own Nil instead of nil()
revSharedNil(h, l) ==
    LET n == clone(h, terminator(h, l))
    IN  revLoop(n.heap, n.list, l)

\* pub fn rev(&self) -> List<A>
rev(h, l) ==
    LET n == nil(h)
    IN  revLoop(n.heap, n.list, l)

\* the loop of from_double_ended_iter: for elem in iter.rev(), i.e. next_back
RECURSIVE fromLoop(_, _, _)
fromLoop(h, list, s) ==
    IF s = <<>>
    THEN [heap |-> h, list |-> list]
    ELSE LET c == cons(h, s[Len(s)], list)
         IN  fromLoop(c.heap, c.list, SubSeq(s, 1, Len(s) - 1))

\* the loop without the .rev(): for elem in iter
RECURSIVE fromLoopForward(_, _, _)
fromLoopForward(h, list, s) ==
    IF s = <<>>
    THEN [heap |-> h, list |-> list]
    ELSE LET c == cons(h, Head(s), list)
         IN  fromLoopForward(c.heap, c.list, Tail(s))

from_double_ended_iter_forward(h, s) ==
    LET n == nil(h)
    IN  fromLoopForward(n.heap, n.list, s)

\* pub fn from_double_ended_iter(iter: I) -> List<A>
from_double_ended_iter(h, s) ==
    LET n == nil(h)
    IN  fromLoop(n.heap, n.list, s)

\* iter.into_iter().collect::<Vec<A>>(): push every item at the back
RECURSIVE collectVec(_, _)
collectVec(s, v) ==
    IF s = <<>> THEN v ELSE collectVec(Tail(s), Append(v, Head(s)))

\* FromIterator::from_iter
from_iter(h, s) == from_double_ended_iter(h, collectVec(s, <<>>))

\* ------------------------------------------------------ trait operations
\* Iterator::eq of the two iterators
RECURSIVE iterEq(_, _, _)
iterEq(h, i, j) ==
    LET x == next(h, i)
        y == next(h, j)
    IN  IF x.item = None THEN y.item = None
        ELSE IF y.item = None THEN FALSE
        ELSE IF x.item[1] # y.item[1] THEN FALSE
        ELSE iterEq(h, x.list, y.list)

\* an equality that stops at the end of the shorter list (zip and all)
RECURSIVE zipAll(_, _, _)
zipAll(h, i, j) ==
    LET x == next(h, i)
        y == next(h, j)
    IN  IF x.item = None \/ y.item = None THEN TRUE
        ELSE IF x.item[1] # y.item[1] THEN FALSE
        ELSE zipAll(h, x.list, y.list)

eqZip(h, a, b) == zipAll(h, iter(a), iter(b))

\* PartialEq::eq for List
eq(h, a, b) == iterEq(h, iter(a), iter(b))

\* Ord::cmp of two elements
cmpElem(x, y) == IF x < y THEN Less ELSE IF x > y THEN Greater ELSE Equal

\* Iterator::cmp of the two iterators
RECURSIVE iterCmp(_, _, _)
iterCmp(h, i, j) ==
    LET x == next(h, i)
        y == next(h, j)
    IN  IF x.item = None THEN (IF y.item = None THEN Equal ELSE Less)
        ELSE IF y.item = None THEN Greater
        ELSE IF cmpElem(x.item[1], y.item[1]) # Equal THEN cmpElem(x.item[1], y.item[1])
        ELSE iterCmp(h, x.list, y.list)

\* an ordering that compares the lengths first
cmpLenFirst(h, a, b) ==
    IF count(h, iter(a)) < count(h, iter(b)) THEN Less
    ELSE IF count(h, iter(a)) > count(h, iter(b)) THEN Greater
    ELSE iterCmp(h, iter(a), iter(b))

\* Ord::cmp for List
cmp(h, a, b) == iterCmp(h, iter(a), iter(b))

\* PartialOrd::partial_cmp for List (elements totally ordered)
partial_cmp(h, a, b) == Some(iterCmp(h, iter(a), iter(b)))

\* elem.hash(state): the hasher's state is the sequence of writes made to it
hashElem(st, x) == Append(st, x)

\* self.iter().for_each(|elem| elem.hash(state))
RECURSIVE forEachHash(_, _, _)
forEachHash(h, i, st) ==
    LET r == next(h, i)
    IN  IF r.item = None THEN st ELSE forEachHash(h, r.list, hashElem(st, r.item[1]))

\* a hash of the pointer instead of the elements
hashPtr(h, l, st) == Append(st, l)

\* Hash::hash for List
hash(h, l, st) == forEachHash(h, iter(l), st)

\* "{}" of an element
Digits == <<"0", "1", "2", "3", "4", "5", "6", "7", "8", "9">>

toStr(x) == Digits[x + 1]

\* Display::fmt / Debug::fmt for List: the pieces written to the formatter
RECURSIVE fmt(_, _)
fmt(h, l) ==
    IF h[l].kind = "Cons"
    THEN <<toStr(h[l].head), " :: ">> \o fmt(h, h[l].tail)
    ELSE <<"Nil">>

\* ------------------------------------------------------------- the caller
NoIter == [src |-> 0, list |-> 0]

NoRet == [op |-> "none"]

\* the caller is between two calls
Idle == ret.op = "none"

Bound(s) == slots[s] # 0

\* the borrow `&'a List<A>` held by the iterator keeps its slot from being moved or dropped
Borrowed(s) == it.src = s

\* cells the allocator can still hand out
Room(k) == Cardinality(FreeCells(heap)) >= k

\* finite input sequences for the conversions
Inputs == UNION {[1..k -> Values] : k \in 0..MaxLen}

\* the states a hasher is in when a list is fed to it
HasherStates == {<<>>, <<MaxVal>>}

\* a caller with `ns` variables and room for `nn` allocations, before its first call
Start(nn, ns) ==
    /\ heap = [n \in 1..nn |-> FreeNode]
    /\ slots = [s \in 1..ns |-> 0]
    /\ it = NoIter
    /\ ret = NoRet

Init == Start(MaxNodes, NumSlots)

\* let d = nil();
NilCall(d) ==
    /\ Idle /\ ~Bound(d) /\ Room(1)
    /\ LET r == nil(heap)
       IN  /\ heap' = r.heap
           /\ slots' = [slots EXCEPT ![d] = r.list]
    /\ ret' = [op |-> "nil", dst |-> d]
    /\ UNCHANGED it

\* let d = cons(x, s);   s is moved into the new node
ConsCall(x, s, d) ==
    /\ Idle /\ Bound(s) /\ ~Borrowed(s) /\ (d = s \/ ~Bound(d)) /\ Room(1)
    /\ LET r == cons(heap, x, slots[s])
       IN  /\ heap' = r.heap
           /\ slots' = [[slots EXCEPT ![s] = 0] EXCEPT ![d] = r.list]
    /\ ret' = [op |-> "cons", head |-> x, src |-> s, dst |-> d]
    /\ UNCHANGED it

\* let d = s.clone();
CloneCall(s, d) ==
    /\ Idle /\ Bound(s) /\ ~Bound(d)
    /\ LET r == clone(heap, slots[s])
       IN  /\ heap' = r.heap
           /\ slots' = [slots EXCEPT ![d] = r.list]
    /\ ret' = [op |-> "clone", src |-> s, dst |-> d]
    /\ UNCHANGED it

\* drop(s);
DropCall(s) ==
    /\ Idle /\ Bound(s) /\ ~Borrowed(s)
    /\ heap' = drop(heap, slots[s])
    /\ slots' = [slots EXCEPT ![s] = 0]
    /\ ret' = [op |-> "drop", src |-> s, list |-> slots[s],
               freed |-> FreeCells(drop(heap, slots[s])) \ FreeCells(heap)]
    /\ UNCHANGED it

\* s.head()
HeadCall(s) ==
    /\ Idle /\ Bound(s)
    /\ ret' = [op |-> "head", src |-> s, res |-> head(heap, slots[s])]
    /\ UNCHANGED <<heap, slots, it>>

\* s.head_opt()
HeadOptCall(s) ==
    /\ Idle /\ Bound(s)
    /\ ret' = [op |-> "head_opt", src |-> s, res |-> head_opt(heap, slots[s])]
    /\ UNCHANGED <<heap, slots, it>>

\* let d = s.tail();
TailCall(s, d) ==
    /\ Idle /\ Bound(s) /\ ~Bound(d)
    /\ LET r == tail(heap, slots[s])
       IN  /\ heap' = r.heap
           /\ slots' = [slots EXCEPT ![d] = r.list]
           /\ ret' = [op |-> "tail", src |-> s, dst |-> d, panicked |-> r.panicked]
    /\ UNCHANGED it

\* if let Some(d) = s.tail_opt()
TailOptCall(s, d) ==
    /\ Idle /\ Bound(s) /\ ~Bound(d)
    /\ LET r == tail_opt(heap, slots[s])
       IN  /\ heap' = r.heap
           /\ slots' = [slots EXCEPT ![d] = IF r.opt = None THEN 0 ELSE r.opt[1]]
           /\ ret' = [op |-> "tail_opt", src |-> s, dst |-> d, res |-> r.opt]
    /\ UNCHANGED it

\* s.is_empty()
IsEmptyCall(s) ==
    /\ Idle /\ Bound(s)
    /\ ret' = [op |-> "is_empty", src |-> s, res |-> is_empty(heap, slots[s])]
    /\ UNCHANGED <<heap, slots, it>>

\* s.len()
LenCall(s) ==
    /\ Idle /\ Bound(s)
    /\ ret' = [op |-> "len", src |-> s, res |-> len(heap, slots[s])]
    /\ UNCHANGED <<heap, slots, it>>

\* let it = s.iter();
IterCall(s) ==
    /\ Idle /\ Bound(s) /\ it = NoIter
    /\ it' = [src |-> s, list |-> iter(slots[s])]
    /\ ret' = [op |-> "iter", src |-> s]
    /\ UNCHANGED <<heap, slots>>

\* it.next()
NextCall ==
    /\ Idle /\ it # NoIter
    /\ LET r == next(heap, it.list)
       IN  /\ it' = [it EXCEPT !.list = r.list]
           /\ ret' = [op |-> "next", res |-> r.item, from |-> it.list]
    /\ UNCHANGED <<heap, slots>>

\* the iterator goes out of scope; the borrow ends
IterDrop ==
    /\ Idle /\ it # NoIter
    /\ it' = NoIter
    /\ ret' = [op |-> "iter_drop"]
    /\ UNCHANGED <<heap, slots>>

\* let d = s.rev();
RevCall(s, d) ==
    /\ Idle /\ Bound(s) /\ ~Bound(d) /\ Room(len(heap, slots[s]) + 1)
    /\ LET r == rev(heap, slots[s])
       IN  /\ heap' = r.heap
           /\ slots' = [slots EXCEPT ![d] = r.list]
    /\ ret' = [op |-> "rev", src |-> s, dst |-> d]
    /\ UNCHANGED it

\* let d = List::from_double_ended_iter(input.into_iter());
FromDoubleEndedIterCall(input, d) ==
    /\ Idle /\ ~Bound(d) /\ Room(Len(input) + 1)
    /\ LET r == from_double_ended_iter(heap, input)
       IN  /\ heap' = r.heap
           /\ slots' = [slots EXCEPT ![d] = r.list]
    /\ ret' = [op |-> "from_double_ended_iter", input |-> input, dst |-> d]
    /\ UNCHANGED it

\* let d = input.into_iter().collect::<List<A>>();
FromIterCall(input, d) ==
    /\ Idle /\ ~Bound(d) /\ Room(Len(input) + 1)
    /\ LET r == from_iter(heap, input)
       IN  /\ heap' = r.heap
           /\ slots' = [slots EXCEPT ![d] = r.list]
    /\ ret' = [op |-> "from_iter", input |-> input, dst |-> d]
    /\ UNCHANGED it

\* a == b
EqCall(a, b) ==
    /\ Idle /\ Bound(a) /\ Bound(b)
    /\ ret' = [op |-> "eq", a |-> a, b |-> b, res |-> eq(heap, slots[a], slots[b])]
    /\ UNCHANGED <<heap, slots, it>>

\* a.cmp(&b)
CmpCall(a, b) ==
    /\ Idle /\ Bound(a) /\ Bound(b)
    /\ ret' = [op |-> "cmp", a |-> a, b |-> b, res |-> cmp(heap, slots[a], slots[b])]
    /\ UNCHANGED <<heap, slots, it>>

\* a.partial_cmp(&b)
PartialCmpCall(a, b) ==
    /\ Idle /\ Bound(a) /\ Bound(b)
    /\ ret' = [op |-> "partial_cmp", a |-> a, b |-> b,
               res |-> partial_cmp(heap, slots[a], slots[b])]
    /\ UNCHANGED <<heap, slots, it>>

\* s.hash(&mut hasher) with the hasher in state st
HashCall(s, st) ==
    /\ Idle /\ Bound(s)
    /\ ret' = [op |-> "hash", src |-> s, st |-> st, res |-> hash(heap, slots[s], st)]
    /\ UNCHANGED <<heap, slots, it>>

\* format!("{}", s)
FmtCall(s) ==
    /\ Idle /\ Bound(s)
    /\ ret' = [op |-> "fmt", src |-> s, res |-> fmt(heap, slots[s])]
    /\ UNCHANGED <<heap, slots, it>>

\* the caller is done with the value the last call returned
Discard ==
    /\ ~Idle
    /\ ret' = NoRet
    /\ UNCHANGED <<heap, slots, it>>

\* a caller that builds lists by hand, shares them, walks them and drops them
Next ==
    \/ \E d \in Slots : NilCall(d)
    \/ \E x \in Values, s, d \in Slots : ConsCall(x, s, d)
    \/ \E s, d \in Slots : CloneCall(s, d)
    \/ \E s \in Slots : DropCall(s)
    \/ \E s \in Slots : HeadCall(s)
    \/ \E s \in Slots : HeadOptCall(s)
    \/ \E s, d \in Slots : TailCall(s, d)
    \/ \E s, d \in Slots : TailOptCall(s, d)
    \/ \E s \in Slots : IsEmptyCall(s)
    \/ \E s \in Slots : LenCall(s)
    \/ \E s, d \in Slots : RevCall(s, d)
    \/ Discard

Spec == Init /\ [][Next]_vars

\* the same caller, walking the lists with an iterator while it changes the others
NextIter ==
    \/ \E d \in Slots : NilCall(d)
    \/ \E x \in Values, s, d \in Slots : ConsCall(x, s, d)
    \/ \E s, d \in Slots : CloneCall(s, d)
    \/ \E s \in Slots : DropCall(s)
    \/ \E s \in Slots : HeadCall(s)
    \/ \E s, d \in Slots : TailCall(s, d)
    \/ \E s \in Slots : LenCall(s)
    \/ \E s, d \in Slots : RevCall(s, d)
    \/ \E s \in Slots : IterCall(s)
    \/ NextCall
    \/ IterDrop
    \/ Discard

InitIter == Start(MaxIterNodes, NumIterSlots)

SpecIter == InitIter /\ [][NextIter]_vars

\* a caller that converts sequences to lists, reverses, shares and compares them
InitBuild == Start(MaxBuildNodes, NumBuildSlots)

NextBuild ==
    \/ \E input \in Inputs, d \in Slots : FromDoubleEndedIterCall(input, d)
    \/ \E input \in Inputs, d \in Slots : FromIterCall(input, d)
    \/ \E s, d \in Slots : RevCall(s, d)
    \/ \E s, d \in Slots : CloneCall(s, d)
    \/ \E s, d \in Slots : TailCall(s, d)
    \/ \E s \in Slots : DropCall(s)
    \/ \E s \in Slots : LenCall(s)
    \/ \E a, b \in Slots : EqCall(a, b)
    \/ \E a, b \in Slots : CmpCall(a, b)
    \/ \E a, b \in Slots : PartialCmpCall(a, b)
    \/ \E s \in Slots, st \in HasherStates : HashCall(s, st)
    \/ \E s \in Slots : FmtCall(s)
    \/ Discard

SpecBuild == InitBuild /\ [][NextBuild]_vars

\* ------------------------------------------------------------ properties
\* The conjuncts that range over all the handles the caller holds are stated for
\* the states between two calls (Idle); a state in which a call has just
\* returned has the heap of the Idle state that follows it.
\* the cells in use
Live(h) == DOMAIN h \ FreeCells(h)

\* the number of handles that refer to node n: caller variables and tail fields
RefCount(n) ==
    Cardinality({s \in Slots : slots[s] = n})
    + Cardinality({m \in Live(heap) : heap[m].kind = "Cons" /\ heap[m].tail = n})

\* C1: for every x and l, cons(x, l).head() is x, cons(x, l).tail() is the very
\* node l referred to and holds l's elements, and neither cons nor tail copies
\* a node of l: the only new cell is the Cons node itself and every old cell
\* keeps its variant, head and tail.
C1_ConsHeadTail ==
    [][ret'.op = "cons" =>
          LET l == slots'[ret'.dst]
              old == slots[ret'.src]
              t == tail(heap', l)
          IN  /\ head(heap', l) = Ok(ret'.head)
              /\ ~t.panicked
              /\ t.list = old
              /\ collect(t.heap, iter(t.list)) = collect(heap, iter(old))
              /\ Live(t.heap) = Live(heap) \cup {l}
              /\ l \notin Live(heap)
              /\ \A n \in Live(heap) :
                    /\ t.heap[n].kind = heap[n].kind
                    /\ t.heap[n].head = heap[n].head
                    /\ t.heap[n].tail = heap[n].tail]_vars

\* a cons onto a list of at least one element that another handle shares
C1_Witness ==
    /\ ret.op = "cons"
    /\ len(heap, slots[ret.dst]) >= 2
    /\ heap[heap[slots[ret.dst]].tail].rc >= 2

\* C7: on an empty list head() and tail() panic and return nothing, head_opt()
\* and tail_opt() return None; on a non-empty list none of the four fails and
\* the optional accessors wrap what the strict ones return.
C7_StrictAndOptional ==
    /\ \A s \in Slots : Idle /\ Bound(s) =>
          LET l == slots[s]
              h == head(heap, l)
              t == tail(heap, l)
              ho == head_opt(heap, l)
              to == tail_opt(heap, l)
          IN  IF is_empty(heap, l)
              THEN /\ h.panicked /\ h.val = <<>>
                   /\ t.panicked /\ t.list = 0 /\ t.heap = heap
                   /\ ho = None
                   /\ to.opt = None /\ to.heap = heap
              ELSE /\ ~h.panicked /\ ~t.panicked
                   /\ ho = Some(h.val[1])
                   /\ to.opt = Some(t.list)
                   /\ to.heap = t.heap
    /\ ret.op = "head" => ret.res.panicked = is_empty(heap, slots[ret.src])
    /\ ret.op = "head_opt" => (ret.res = None) = is_empty(heap, slots[ret.src])
    /\ ret.op = "tail" =>
          /\ ret.panicked = is_empty(heap, slots[ret.src])
          /\ ret.panicked = ~Bound(ret.dst)
    /\ ret.op = "tail_opt" =>
          /\ (ret.res = None) = is_empty(heap, slots[ret.src])
          /\ (ret.res = None) = ~Bound(ret.dst)

\* head() has just panicked on an empty list while a non-empty list is around
C7_Witness ==
    /\ ret.op = "head"
    /\ ret.res.panicked
    /\ \E s \in Slots : Bound(s) /\ ~is_empty(heap, slots[s])

\* C8: a cell is in use exactly when some handle refers to it, and its strong
\* count is the number of those handles: nothing reachable from a live handle
\* is freed, and nothing unreferenced stays allocated.
C8_RefCounting ==
    /\ \A n \in DOMAIN heap :
          /\ heap[n].rc = RefCount(n)
          /\ (n \in Live(heap)) = (RefCount(n) > 0)
    /\ \A s \in Slots : Bound(s) => slots[s] \in Live(heap)
    /\ \A n \in Live(heap) : heap[n].kind = "Cons" => heap[n].tail \in Live(heap)

\* a drop has freed a chain of at least two cells while another list stays alive
C8_Witness ==
    /\ ret.op = "drop"
    /\ Cardinality(ret.freed) >= 2
    /\ \E s \in Slots : Bound(s) /\ heap[slots[s]].rc = 1

\* C9: no step changes the head or the tail of a Cons node that exists before
\* and after it, and every handle (and the iterator, unless it is advanced)
\* that exists before and after the step observes the same elements.
C9_Immutable ==
    [][/\ \A n \in Live(heap) \cap Live(heap') :
             heap[n].kind = "Cons" =>
                /\ heap'[n].kind = "Cons"
                /\ heap'[n].head = heap[n].head
                /\ heap'[n].tail = heap[n].tail
       /\ \A s \in Slots :
             Bound(s) /\ slots'[s] = slots[s] =>
                collect(heap', iter(slots'[s])) = collect(heap, iter(slots[s]))
       /\ it # NoIter /\ it' = it =>
             collect(heap', it'.list) = collect(heap, it.list)]_vars

\* the drop of another handle has freed a cell while an iterator stands in the
\* middle of a list of two elements
C9_Witness ==
    /\ ret.op = "drop"
    /\ Cardinality(ret.freed) >= 1
    /\ it # NoIter
    /\ it.list # slots[it.src]
    /\ len(heap, slots[it.src]) >= 2

\* a heap with k more free cells, for calls made on top of a reachable state
Grow(h, k) ==
    [n \in 1..(Cardinality(DOMAIN h) + k) |-> IF n \in DOMAIN h THEN h[n] ELSE FreeNode]

\* the nodes of a list, its Nil included
RECURSIVE Reach(_, _)
Reach(h, l) == IF h[l].kind = "Cons" THEN {l} \cup Reach(h, h[l].tail) ELSE {l}

\* the elements a handle shows, head first
Elems(s) == collect(heap, iter(slots[s]))

Reverse(q) == [i \in 1..Len(q) |-> q[Len(q) + 1 - i]]

\* C2: iterating the list built by from_iter(s) or from_double_ended_iter(s)
\* yields s in its order, and collecting l.iter() into a list gives a list
\* equal to l.
C2_RoundTrip ==
    /\ ret.op \in {"from_iter", "from_double_ended_iter"} => Elems(ret.dst) = ret.input
    /\ \A s \in Slots : Idle /\ Bound(s) =>
          LET r == from_iter(Grow(heap, Len(Elems(s)) + 1), Elems(s))
          IN  /\ eq(r.heap, r.list, slots[s])
              /\ r.list # slots[s]

\* from_iter has just built a list from a sequence that is not its own reverse
C2_Witness ==
    /\ ret.op = "from_iter"
    /\ ret.input = <<MaxVal, 1>>
    /\ len(heap, slots[ret.dst]) = Len(ret.input)

\* C3: rev() yields the elements in reverse order, reversing twice gives a
\* list equal to the original, and the reverse of an empty list is empty.
C3_RevInvolution ==
    /\ ret.op = "rev" => Elems(ret.dst) = Reverse(Elems(ret.src))
    /\ \A s \in Slots : Idle /\ Bound(s) =>
          LET l == slots[s]
              r1 == rev(Grow(heap, 2 * (Len(Elems(s)) + 1)), l)
              r2 == rev(r1.heap, r1.list)
          IN  /\ eq(r2.heap, r2.list, l)
              /\ eq(r2.heap, l, r2.list)
              /\ is_empty(heap, l) =>
                    /\ is_empty(r1.heap, r1.list)
                    /\ eq(r1.heap, r1.list, l)

\* rev() has just reversed a list of two different elements
C3_Witness ==
    /\ ret.op = "rev"
    /\ Elems(ret.src) = <<1, MaxVal>>
    /\ Bound(ret.dst)

\* the elementwise definition of equality
SameElems(p, q) == Len(p) = Len(q) /\ \A i \in 1..Len(p) : p[i] = q[i]

\* C4: a == b iff the two lists have the same length and equal elements at
\* every position, whether or not they share nodes; == is reflexive,
\* symmetric and transitive.
C4_Equality ==
    /\ ret.op = "eq" => ret.res = SameElems(Elems(ret.a), Elems(ret.b))
    /\ \A a \in Slots : Idle /\ Bound(a) =>
          /\ eq(heap, slots[a], slots[a])
          /\ \A b \in Slots : Bound(b) =>
                /\ eq(heap, slots[a], slots[b]) = SameElems(Elems(a), Elems(b))
                /\ eq(heap, slots[a], slots[b]) = eq(heap, slots[b], slots[a])
                /\ \A c \in Slots :
                      Bound(c) /\ eq(heap, slots[a], slots[b]) /\ eq(heap, slots[b], slots[c])
                         => eq(heap, slots[a], slots[c])

\* == has just answered true for two non-empty lists that share no node, and
\* a third list that shares no node with them is equal to both
C4_Witness ==
    /\ ret.op = "eq" /\ ret.res
    /\ Elems(ret.a) # <<>>
    /\ Reach(heap, slots[ret.a]) \cap Reach(heap, slots[ret.b]) = {}
    /\ \E c \in Slots :
          /\ Bound(c)
          /\ Reach(heap, slots[c]) \cap Reach(heap, slots[ret.a]) = {}
          /\ Reach(heap, slots[c]) \cap Reach(heap, slots[ret.b]) = {}
          /\ eq(heap, slots[ret.b], slots[c])

\* the lexicographic order of two sequences
Lex(p, q) ==
    LET m == IF Len(p) < Len(q) THEN Len(p) ELSE Len(q)
        D == {i \in 1..m : p[i] # q[i]}
    IN  IF D # {}
        THEN LET k == CHOOSE i \in D : \A j \in D : i <= j
             IN  IF p[k] < q[k] THEN Less ELSE Greater
        ELSE IF Len(p) < Len(q) THEN Less
        ELSE IF Len(p) > Len(q) THEN Greater
        ELSE Equal

\* C5: cmp and partial_cmp order two lists lexicographically by their element
\* sequences: the first unequal position decides, a strict prefix is less,
\* and the result is Equal exactly when the lists are equal.
C5_Lexicographic ==
    /\ ret.op = "cmp" => ret.res = Lex(Elems(ret.a), Elems(ret.b))
    /\ ret.op = "partial_cmp" => ret.res = Some(Lex(Elems(ret.a), Elems(ret.b)))
    /\ \A a, b \in Slots : Idle /\ Bound(a) /\ Bound(b) =>
          /\ cmp(heap, slots[a], slots[b]) = Lex(Elems(a), Elems(b))
          /\ partial_cmp(heap, slots[a], slots[b]) = Some(cmp(heap, slots[a], slots[b]))
          /\ (cmp(heap, slots[a], slots[b]) = Equal) = eq(heap, slots[a], slots[b])

\* cmp has just answered Greater for a list that is shorter than the other
C5_Witness ==
    /\ ret.op = "cmp"
    /\ ret.res = Greater
    /\ Len(Elems(ret.a)) < Len(Elems(ret.b))

\* C6: two equal lists fed to hashers in the same state leave them in the same
\* state, and the hasher receives the elements one by one, head first.
C6_HashOfEqualLists ==
    /\ ret.op = "hash" => ret.res = ret.st \o Elems(ret.src)
    /\ \A a, b \in Slots, st \in HasherStates :
          Idle /\ Bound(a) /\ Bound(b) /\ eq(heap, slots[a], slots[b]) =>
             hash(heap, slots[a], st) = hash(heap, slots[b], st)

\* a list of two elements has just been hashed and an equal list lives in
\* other nodes
C6_Witness ==
    /\ ret.op = "hash"
    /\ Len(Elems(ret.src)) >= 2
    /\ \E b \in Slots :
          /\ Bound(b)
          /\ slots[b] # slots[ret.src]
          /\ eq(heap, slots[b], slots[ret.src])

\* C10 as stated: the list rev() returns shares no Cons node with l and ends in
\* the very Nil node l ends in.
C10_SharesNil ==
    ret.op = "rev" =>
       /\ Reach(heap, slots[ret.dst]) \cap Reach(heap, slots[ret.src])
             = {terminator(heap, slots[ret.src])}
       /\ terminator(heap, slots[ret.dst]) = terminator(heap, slots[ret.src])

\* C10, amended: the list rev() returns shares no node at all with l; it ends
\* in a Nil node of its own that nothing else refers to.
C10_RevNewSpine ==
    ret.op = "rev" =>
       /\ Reach(heap, slots[ret.dst]) \cap Reach(heap, slots[ret.src]) = {}
       /\ \A n \in Reach(heap, slots[ret.dst]) : heap[n].rc = 1
       /\ Elems(ret.src) = Reverse(Elems(ret.dst))

\* rev() has just reversed a list of two elements
C10_Witness ==
    /\ ret.op = "rev"
    /\ Len(Elems(ret.src)) = 2
    /\ Len(Elems(ret.dst)) = 2

====
